---- MODULE Spec2Model ----
(***************************************************************************)
(* ChangeFinder (anompy/detector/changefinder/changefinder_1d.py): the     *)
(* sequentially discounted AR estimator SDAR_1D and the two-stage detector *)
(* ChangeFinder built on two of them.                                      *)
(*                                                                         *)
(* Numbers.  The program computes in binary floating point.  The model     *)
(* computes in fixed point: the integer n stands for the real n / Scale,   *)
(* and every multiplication, division, root, exponential and logarithm     *)
(* returns the representable number nearest to the exact result, as a      *)
(* floating-point operation does at its own, finer, precision.  Exact      *)
(* comparisons of the code (sigma == 0.0, p == 0.0, sigma1 + sigma2 == 0)  *)
(* are exact comparisons of the model.                                     *)
(***************************************************************************)
EXTENDS Integers, Sequences, FiniteSets, TLC

\* ------------------------------------------------------------------ bounds
Scale == 16        \* fixed-point resolution: n stands for n / Scale
MaxK == 2          \* largest AR order k a detector or estimator is built with
MaxT == 2          \* largest smoothing window T1, T2
MaxCalls == 3      \* detect calls explored per detector
MaxUpdates == 2    \* update calls explored per estimator used on its own

\* ------------------------------------------------------- fixed-point layer
Abs(n) == IF n < 0 THEN -n ELSE n

\* n / d for integers, d > 0, rounded to nearest (ties away from zero)
RDiv(n, d) == IF n >= 0 THEN (2 * n + d) \div (2 * d)
                        ELSE -((2 * (-n) + d) \div (2 * d))

\* float multiplication a * b
FMul(a, b) == RDiv(a * b, Scale)

\* float division a / b, b # 0
FDiv(a, b) == IF b > 0 THEN RDiv(a * Scale, b) ELSE RDiv((-a) * Scale, -b)

\* s or s + 1, whichever is the floor of the square root of m
SqrtFloor(m, s) == IF (s + 1) * (s + 1) <= m THEN s + 1 ELSE s

RECURSIVE ISqrt(_)
\* floor of the square root of the natural number m
ISqrt(m) == IF m < 2 THEN m ELSE SqrtFloor(m, 2 * ISqrt(m \div 4))

\* s or s + 1, whichever is nearer to the square root of m
SqrtNearest(m, s) == IF m - s * s > s THEN s + 1 ELSE s

\* v ** 0.5 for v >= 0
FSqrt(v) == SqrtNearest(v * Scale, ISqrt(v * Scale))

\* v ** 0.25 for v >= 0
FRoot4(v) == FSqrt(FSqrt(v))

\* internal resolution of the series below
Fine == Scale * Scale * Scale

RECURSIVE ExpSeries(_, _, _)
\* sum of the Taylor terms of Fine * e^(t / Scale) from the n-th term on
ExpSeries(term, n, t) ==
    IF term = 0 THEN 0
    ELSE term + ExpSeries(RDiv(term * t, Scale * n), n + 1, t)

\* np.exp(-t) for t >= 0: underflows to 0 from t >= 6 on
ExpNeg(t) == IF t >= 6 * Scale THEN 0
             ELSE RDiv(Scale * Fine, ExpSeries(Fine, 1, t))

RECURSIVE Log2Floor(_)
\* floor(log2 n) for n >= 1
Log2Floor(n) == IF n < 2 THEN 0 ELSE 1 + Log2Floor(n \div 2)

RECURSIVE Pow2(_)
Pow2(e) == IF e = 0 THEN 1 ELSE 2 * Pow2(e - 1)

RECURSIVE AtanhSeries(_, _, _)
\* z + z^3 / 3 + z^5 / 5 + ... from the term zn = z^n on, at resolution Fine
AtanhSeries(zn, n, z2) ==
    IF zn = 0 THEN 0
    ELSE RDiv(zn, n) + AtanhSeries(RDiv(zn * z2, Fine), n + 2, z2)

\* Fine * ln(n / 2^e) for 2^e <= n < 2^(e + 1), with z = (m - 1) / (m + 1)
\* for m = n / 2^e: ln m = 2 atanh z
LnMantissa(z) == 2 * AtanhSeries(z, 1, RDiv(z * z, Fine))

\* Fine * ln(n) for an integer n >= 1
LnFine(n) ==
    Log2Floor(n) * ((Fine * 6931) \div 10000)
      + LnMantissa(RDiv((n - Pow2(Log2Floor(n))) * Fine, n + Pow2(Log2Floor(n))))

\* resolution of a probability density (a quotient that spans more orders
\* of magnitude than the state does)
PScale == Scale * Scale

\* np.log(p) for a density p > 0 held at resolution PScale
FLog(p) == RDiv((LnFine(p) - LnFine(PScale)) * Scale, Fine)

\* ------------------------------------------------------ sequence helpers
RECURSIVE SumSeq(_)
SumSeq(s) == IF s = <<>> THEN 0 ELSE Head(s) + SumSeq(Tail(s))

Reverse(s) == [i \in 1..Len(s) |-> s[Len(s) + 1 - i]]

\* s[:n]
Take(s, n) == SubSeq(s, 1, IF n < Len(s) THEN n ELSE Len(s))

\* np.zeros(n)
Zeros(n) == [i \in 1..n |-> 0]

\* np.dot(a, b) for two vectors of one length
Dot(a, b) == SumSeq([i \in 1..Len(a) |-> FMul(a[i], b[i])])

\* ----------------------------------------------------- AR-coefficient solvers
RECURSIVE Levinson(_, _, _, _, _)
\* Levinson-Durbin recursion, step m of k: a holds the coefficients of order
\* m - 1 and E their prediction error; a zero E leaves the remaining
\* reflection coefficients 0 (best effort, no failure)
Levinson(c, k, m, a, E) ==
    IF m > k THEN a
    ELSE LET acc == c[m + 1] - SumSeq([j \in 1..(m - 1) |-> FMul(a[j], c[m - j + 1])])
             lam == IF E = 0 THEN 0 ELSE FDiv(acc, E)
             a2  == [j \in 1..m |-> IF j = m THEN lam ELSE a[j] - FMul(lam, a[m - j])]
             E2  == FMul(E, Scale - FMul(lam, lam))
         IN  Levinson(c, k, m + 1, a2, E2)

\* aryule_levinson(c, k): a[1..k] from the autocovariances c[0..k]
aryule_levinson(c, k) == Levinson(c, k, 1, <<>>, c[1])

RECURSIVE Burg(_, _, _, _, _)
\* Burg's method, step m of k: f and b are the forward and backward
\* prediction errors of order m - 1
Burg(f, b, k, m, a) ==
    IF m > k THEN a
    ELSE LET n   == Len(f)
             den == Dot(f, f) + Dot(b, b)
             lam == IF den = 0 THEN 0 ELSE FDiv(2 * Dot(f, b), den)
             a2  == [j \in 1..m |-> IF j = m THEN lam ELSE a[j] - FMul(lam, a[m - j])]
             f2  == [i \in 1..(n - 1) |-> f[i + 1] - FMul(lam, b[i + 1])]
             b2  == [i \in 1..(n - 1) |-> b[i] - FMul(lam, f[i])]
         IN  Burg(f2, b2, k, m + 1, a2)

\* arburg(samples, k): a[1..k] from k + 1 samples, most recent first
arburg(s, k) == Burg(SubSeq(s, 2, Len(s)), SubSeq(s, 1, Len(s) - 1), k, 1, <<>>)

\* ------------------------------------------------------------------ SDAR_1D
\* SDAR_1D.__init__(r, k, yule)
SDAR_init(r, k, yule) ==
    [r |-> r, k |-> k, yule |-> yule, mu |-> 0, sigma |-> 0, c |-> Zeros(k + 1)]

\* xs[::-1][:self.k]: the regressors, most recent first
Lags(xs, k) == Take(Reverse(xs), k)

\* slip: the squared residual is subtracted
SigmaUpdate_minus(r, sigma, e) == FMul(Scale - r, sigma) - FMul(r, FMul(e, e))

\* self.sigma = (1 - self.r) * self.sigma + self.r * (x - x_hat) ** 2
SigmaUpdate(r, sigma, e) == FMul(Scale - r, sigma) + FMul(r, FMul(e, e))

\* the value update returns: the normal density of the residual e under
\* variance sigma, at resolution PScale
Pdf(sigma, e) ==
    IF sigma = 0 THEN 0
    ELSE IF sigma < 0 THEN 0   \* nan in numpy; sigma < 0 is not reachable
    ELSE LET numerator   == ExpNeg(FDiv(FMul(RDiv(Scale, 2), FMul(e, e)), sigma))
             denominator == FMul(FSqrt(RDiv(Scale * 62832, 10000)), FSqrt(sigma))
         IN  RDiv(numerator * PScale, denominator)

\* self.mu = (1 - self.r) * self.mu + self.r * x
MuUpdate(s, x) == FMul(Scale - s.r, s.mu) + FMul(s.r, x)

\* slip: the assertion is made after the mean was updated
Rejected_late(s, x) == [err |-> TRUE, sdar |-> [s EXCEPT !.mu = MuUpdate(s, x)], p |-> 0]

\* the failed assertion on the regressors: raised before anything is assigned
Rejected(s, x) == [err |-> TRUE, sdar |-> s, p |-> 0]

\* self.c after the two assignments of the Yule-Walker branch (lag: the
\* regressors, most recent first; mu: the updated mean); untouched otherwise
CUpdate(s, x, lag, mu) ==
    IF s.yule
    THEN [j \in 1..(s.k + 1) |->
            FMul(Scale - s.r, s.c[j])
              + FMul(FMul(s.r, x - mu), IF j = 1 THEN x - mu ELSE lag[j - 1] - mu)]
    ELSE s.c

\* a_1, ..., a_k by the solver the estimator was built with
Coefficients(s, x, lag, c) ==
    IF s.yule THEN aryule_levinson(c, s.k) ELSE arburg(<<x>> \o lag, s.k)

\* x_hat = np.dot(a, xs[::-1][:self.k] - self.mu) + self.mu
Predict(a, lag, mu) == Dot(a, [j \in 1..Len(a) |-> lag[j] - mu]) + mu

\* the end of update: sigma is assigned and the density returned
Updated(s, mu, c, e, sigma) ==
    [err  |-> FALSE,
     sdar |-> [s EXCEPT !.mu = mu, !.c = c, !.sigma = sigma],
     p    |-> Pdf(sigma, e)]

\* update from the residual e = x - x_hat on
Residual(s, mu, c, e) == Updated(s, mu, c, e, SigmaUpdate(s.r, s.sigma, e))

\* update from the autocovariances on
Fit(s, x, lag, mu, c) ==
    Residual(s, mu, c, x - Predict(Coefficients(s, x, lag, c), lag, mu))

\* update from the mean on
Estimate(s, x, lag, mu) == Fit(s, x, lag, mu, CUpdate(s, x, lag, mu))

\* SDAR_1D.update(x, xs) on the estimator s: whether the assertion failed,
\* the estimator afterwards and the returned density
SDAR_update(s, x, xs) ==
    IF Len(xs) < s.k
    THEN Rejected(s, x)
    ELSE Estimate(s, x, Lags(xs, s.k), MuUpdate(s, x))

\* ------------------------------------------------------------- ChangeFinder
\* slip: the window is trimmed one element late
append_late(window, x, window_size) ==
    IF Len(Append(window, x)) > window_size + 1
    THEN Tail(Append(window, x))
    ELSE Append(window, x)

\* ChangeFinder.__append(window, x, window_size)
append(window, x, window_size) ==
    IF Len(Append(window, x)) > window_size
    THEN Tail(Append(window, x))
    ELSE Append(window, x)

\* ChangeFinder.__smooth(window): np.mean
smooth(window) == RDiv(SumSeq(window), Len(window))

\* slip: a zero density is lifted to the smallest positive one, not scored 0
logloss_eps(p) == -FLog(IF p = 0 THEN 1 ELSE p)

\* ChangeFinder.__logloss(p), p at resolution PScale
logloss(p) == IF p = 0 THEN 0 ELSE -FLog(p)

\* the distance of two models of which one at least has a positive variance
HellingerValue(mu1, sigma1, mu2, sigma2) ==
    IF sigma1 < 0 \/ sigma2 < 0 THEN 0   \* nan in numpy; not reachable
    ELSE Scale - FDiv(FMul(FMul(FRoot4(sigma1), FRoot4(sigma2)),
                           ExpNeg(FDiv(FMul(RDiv(Scale, 4), FMul(mu1 - mu2, mu1 - mu2)),
                                       sigma1 + sigma2))),
                      FSqrt(RDiv(sigma1 + sigma2, 2)))

\* slip: two zero variances give the distance 0, as a zero variance gives
\* the density 0
hellinger_zero(mu1, sigma1, mu2, sigma2) ==
    IF sigma1 + sigma2 = 0 THEN 0 ELSE HellingerValue(mu1, sigma1, mu2, sigma2)

\* ChangeFinder.__hellinger(mu1, sigma1, mu2, sigma2)
hellinger(mu1, sigma1, mu2, sigma2) ==
    IF sigma1 + sigma2 = 0 THEN Scale ELSE HellingerValue(mu1, sigma1, mu2, sigma2)

\* --------------------------------------------------------------------- state
VARIABLES
    cf_st,    \* the ChangeFinder: "none", "ready", or "AssertionError" (constructor failed)
    cf,       \* its instance attributes, by name (empty until constructed)
    args,     \* the arguments its constructor was called with
    base,     \* the class attributes BaseDetector hands to its subclasses
    ret,      \* what the last detect call returned or raised
    calls,    \* per detect call: x, y, and what the two updates were passed and returned
    sd_st,    \* a SDAR_1D used on its own: "none" or "ready"
    sd,       \* its attributes
    sd_ret,   \* what its last update was passed, and returned or raised
    sd_n,     \* the number of update calls made on it
    h_in,     \* the arguments of a __hellinger call
    h_out     \* its value, and its value with the two models swapped

vars == <<cf_st, cf, args, base, ret, calls, sd_st, sd, sd_ret, sd_n, h_in, h_out>>

cf_vars == <<cf_st, cf, args, ret, calls>>
sd_vars == <<sd_st, sd, sd_ret, sd_n>>
h_vars  == <<h_in, h_out>>

None == [kind |-> "none"]

\* the values the explored calls pass
Inputs == {0, Scale, 2 * Scale}
Discounts == {RDiv(Scale, 2), Scale}
Orders == (-1)..MaxK
Windows == 1..MaxT
Thresholds == {<<0, 0>>, <<Scale, 2 * Scale>>}

\* BaseDetector is not part of the file: either it defines no threshold
\* attribute at class level, or it defines both with the default 0
BaseClasses == {<<>>, [threshold_outlier |-> 0, threshold_change |-> 0]}

Init ==
    /\ cf_st = "none" /\ cf = <<>> /\ args = <<>> /\ ret = None /\ calls = <<>>
    /\ base \in BaseClasses
    /\ sd_st = "none" /\ sd = <<>> /\ sd_ret = None /\ sd_n = 0
    /\ h_in = <<>> /\ h_out = None

\* slip: the order 0 passes
ValidOrder_nonneg(k) == k >= 0

\* assert k > 0
ValidOrder(k) == k > 0

\* ChangeFinder.__init__(r, k, T1, T2, yule, logloss, threshold_outlier, threshold_change)
Construct(r, k, T1, T2, yule, by_logloss, thr) ==
    /\ cf_st = "none" /\ sd_st = "none" /\ h_in = <<>>
    /\ args' = [r |-> r, k |-> k, T1 |-> T1, T2 |-> T2, yule |-> yule, logloss |-> by_logloss,
                threshold_outlier |-> thr[1], threshold_change |-> thr[2]]
    /\ IF ~ValidOrder(k)
       THEN /\ cf_st' = "AssertionError"
            /\ cf' = cf
       ELSE /\ cf_st' = "ready"
            /\ cf' = [r |-> r, k |-> k, T1 |-> T1, T2 |-> T2,
                      xs |-> Zeros(k), outliers |-> Zeros(T1),
                      sdar_outlier |-> SDAR_init(r, k, yule),
                      ys |-> Zeros(k), changes |-> Zeros(T2),
                      sdar_change |-> SDAR_init(RDiv(r, 2), k, yule),
                      logloss |-> by_logloss]
    /\ UNCHANGED <<base, ret, calls, sd_vars, h_vars>>

\* the score of one stage, drawn from the update u of the estimator s
Score(s, u, by_logloss) ==
    [err   |-> u.err,
     sdar  |-> u.sdar,
     p     |-> u.p,
     score |-> IF by_logloss THEN logloss(u.p)
               ELSE 100 * hellinger(s.mu, s.sigma, u.sdar.mu, u.sdar.sigma)]

\* one stage of detect: the estimator s is updated with x and the
\* regressors xs, and the score drawn from it
Stage(s, x, xs, by_logloss) ==
    [regs |-> xs] @@ Score(s, SDAR_update(s, x, xs), by_logloss)

\* slip: the smoothed outlier score is returned in place of the raw one
DetectEnd_smoothed(c, x, s1, outliers, y, s2, changes) ==
    [err     |-> FALSE,
     cf      |-> [c EXCEPT !.sdar_outlier = s1.sdar, !.outliers = outliers,
                           !.xs = append(c.xs, x, c.k), !.sdar_change = s2.sdar,
                           !.changes = changes, !.ys = append(c.ys, y, c.k)],
     outlier |-> y,
     change  |-> smooth(changes),
     call    |-> [x |-> x, regs1 |-> s1.regs, p1 |-> s1.p, score1 |-> s1.score,
                  y |-> y, regs2 |-> s2.regs, p2 |-> s2.p, score2 |-> s2.score]]

\* detect from "self.changes = ..." on, when stage 2 has not failed
DetectEnd(c, x, s1, outliers, y, s2, changes) ==
    [err     |-> FALSE,
     cf      |-> [c EXCEPT !.sdar_outlier = s1.sdar, !.outliers = outliers,
                           !.xs = append(c.xs, x, c.k), !.sdar_change = s2.sdar,
                           !.changes = changes, !.ys = append(c.ys, y, c.k)],
     outlier |-> s1.score,
     change  |-> smooth(changes),
     call    |-> [x |-> x, regs1 |-> s1.regs, p1 |-> s1.p, score1 |-> s1.score,
                  y |-> y, regs2 |-> s2.regs, p2 |-> s2.p, score2 |-> s2.score]]

\* detect after stage 2 returned or raised
DetectChange(c, x, s1, outliers, y, s2) ==
    IF s2.err
    THEN [err |-> TRUE,
          cf  |-> [c EXCEPT !.sdar_outlier = s1.sdar, !.outliers = outliers,
                            !.xs = append(c.xs, x, c.k)]]
    ELSE DetectEnd(c, x, s1, outliers, y, s2, append(c.changes, s2.score, c.T2))

\* slip: y is pushed into ys before stage 2 uses ys
DetectStage2_pushfirst(c, x, s1, outliers, y) ==
    DetectChange(c, x, s1, outliers, y,
                 Stage(c.sdar_change, y, append(c.ys, y, c.k), c.logloss))

\* detect from stage 2 on: y is the smoothed outlier score
DetectStage2(c, x, s1, outliers, y) ==
    DetectChange(c, x, s1, outliers, y, Stage(c.sdar_change, y, c.ys, c.logloss))

\* detect from "y = self.__smooth(self.outliers)" on
DetectSmooth(c, x, s1, outliers) == DetectStage2(c, x, s1, outliers, smooth(outliers))

\* detect after stage 1 returned or raised
DetectOutlier(c, x, s1) ==
    IF s1.err THEN [err |-> TRUE, cf |-> c]
    ELSE DetectSmooth(c, x, s1, append(c.outliers, s1.score, c.T1))

\* slip: x is pushed into xs before stage 1 uses xs
DetectStep_pushfirst(c, x) ==
    DetectOutlier(c, x, Stage(c.sdar_outlier, x, append(c.xs, x, c.k), c.logloss))

\* the body of detect on the attributes c: the attributes afterwards, the
\* two scores of the return statement, and the record of the call
DetectStep(c, x) == DetectOutlier(c, x, Stage(c.sdar_outlier, x, c.xs, c.logloss))

\* self.<name>: the instance attribute, else the class attribute
HasAttr(name) == name \in DOMAIN cf \/ name \in DOMAIN base
Attr(name) == IF name \in DOMAIN cf THEN cf[name] ELSE base[name]

\* the return statement of detect
Result(outlier, change) ==
    IF HasAttr("threshold_outlier") /\ HasAttr("threshold_change")
    THEN [kind |-> "ok",
          outlier |-> outlier, outlier_flag |-> outlier > Attr("threshold_outlier"),
          change |-> change, change_flag |-> change > Attr("threshold_change")]
    ELSE [kind |-> "AttributeError"]

\* ChangeFinder.detect(x)
Detect(x) ==
    /\ cf_st = "ready"
    /\ Len(calls) < MaxCalls
    /\ \E d \in {DetectStep(cf, x)} :
           /\ cf' = d.cf
           /\ ret' = IF d.err THEN [kind |-> "AssertionError"]
                              ELSE Result(d.outlier, d.change)
           /\ calls' = IF d.err THEN calls ELSE Append(calls, d.call)
    /\ UNCHANGED <<cf_st, args, base, sd_vars, h_vars>>

\* SDAR_1D(r, k, yule), used without a detector
SdarNew(r, k, yule) ==
    /\ cf_st = "none" /\ sd_st = "none" /\ h_in = <<>>
    /\ sd_st' = "ready"
    /\ sd' = SDAR_init(r, k, yule)
    /\ UNCHANGED <<cf_vars, base, sd_ret, sd_n, h_vars>>

\* the regressor arrays a direct caller passes: any length from 0 to k + 1
Regressors(k) == UNION {[1..n -> {0, Scale}] : n \in 0..(k + 1)}

\* sd.update(x, xs)
SdarUpdate(x, xs) ==
    /\ sd_st = "ready"
    /\ sd_n < MaxUpdates
    /\ \E u \in {SDAR_update(sd, x, xs)} :
           /\ sd' = u.sdar
           /\ sd_ret' = IF u.err THEN [kind |-> "AssertionError", x |-> x, xs |-> xs]
                                 ELSE [kind |-> "pdf", x |-> x, xs |-> xs, p |-> u.p]
    /\ sd_n' = sd_n + 1
    /\ UNCHANGED <<cf_vars, base, sd_st, h_vars>>

Next ==
    \/ \E r \in Discounts, k \in Orders, T1 \in Windows, T2 \in Windows,
          yule \in BOOLEAN, by_logloss \in BOOLEAN, thr \in Thresholds :
            Construct(r, k, T1, T2, yule, by_logloss, thr)
    \/ \E x \in Inputs : Detect(x)
    \/ \E r \in Discounts, k \in 1..MaxK, yule \in BOOLEAN : SdarNew(r, k, yule)
    \/ sd_st = "ready" /\ \E x \in {0, Scale}, xs \in Regressors(sd.k) : SdarUpdate(x, xs)

\* a client builds a detector, or an estimator of its own, and feeds it
Spec == Init /\ [][Next]_vars

\* ---------------------------------------------- __hellinger as a function
\* the means and variances the function is applied to
Means == Inputs
Variances == 0..(2 * Scale)

InitH ==
    /\ cf_st = "none" /\ cf = <<>> /\ args = <<>> /\ ret = None /\ calls = <<>>
    /\ base = <<>>
    /\ sd_st = "none" /\ sd = <<>> /\ sd_ret = None /\ sd_n = 0
    /\ h_in \in [mu1 : Means, sigma1 : Variances, mu2 : Means, sigma2 : Variances]
    /\ h_out = None

\* __hellinger(mu1, sigma1, mu2, sigma2), and the call with the models swapped
HellingerCall ==
    /\ h_in # <<>>
    /\ h_out = None
    /\ h_out' = [kind    |-> "value",
                 d       |-> hellinger(h_in.mu1, h_in.sigma1, h_in.mu2, h_in.sigma2),
                 swapped |-> hellinger(h_in.mu2, h_in.sigma2, h_in.mu1, h_in.sigma1)]
    /\ UNCHANGED <<cf_vars, base, sd_vars, h_in>>

NextH == HellingerCall

SpecH == InitH /\ [][NextH]_vars


\* ------------------------------------------------------------------- claims
LastCall == calls[Len(calls)]
PastInput(i) == IF i <= 0 THEN 0 ELSE calls[i].x
PastScore(i) == IF i <= 0 THEN 0 ELSE calls[i].score1
PastY(i) == IF i <= 0 THEN 0 ELSE calls[i].y

\* m is the mean of the window w, to the nearest representable number
IsMean(m, w) == 2 * Abs(m * Len(w) - SumSeq(w)) <= Len(w)

\* C1: a detector built with k, T1, T2 >= 1 keeps, from construction on and
\* after any number of detect calls, each of its four windows at exactly its
\* capacity: len(xs) = len(ys) = k, len(outliers) = T1, len(changes) = T2.
C1_WindowsAtCapacity ==
    cf_st = "ready" =>
        /\ Len(cf.xs) = args.k /\ Len(cf.ys) = args.k
        /\ Len(cf.outliers) = args.T1 /\ Len(cf.changes) = args.T2

\* more calls were made than any window holds
C1_Witness ==
    /\ cf_st = "ready" /\ Len(calls) >= 3
    /\ args.k = 2 /\ args.T1 = 2 /\ args.T2 = 1

\* C2: every detect call returns normally, with the outlier flag equal to
\* (outlier score > threshold_outlier) and the change flag equal to
\* (change score > threshold_change), for the thresholds the constructor was
\* given.
C2_FlagsUseConstructorThresholds ==
    ret.kind # "none" =>
        /\ ret.kind = "ok"
        /\ ret.outlier_flag = (ret.outlier > args.threshold_outlier)
        /\ ret.change_flag = (ret.change > args.threshold_change)

\* C3: the outlier score detect returns is the raw score of this call, the
\* newest element of the outlier window; the change score it returns is the
\* mean of the change window, this call's raw change score being its newest
\* element.
C3_ReturnedScores ==
    ret.kind = "ok" =>
        /\ ret.outlier = LastCall.score1
        /\ ret.outlier = cf.outliers[Len(cf.outliers)]
        /\ cf.changes[Len(cf.changes)] = LastCall.score2
        /\ IsMean(ret.change, cf.changes)

\* a call whose raw and smoothed scores differ, at both stages
C3_Witness ==
    /\ ret.kind = "ok" /\ args.T1 = 2 /\ args.T2 = 2
    /\ ~IsMean(ret.outlier, cf.outliers)
    /\ ret.change # cf.changes[Len(cf.changes)]

\* C4: an update called with fewer than k regressors raises the assertion
\* and leaves mu, sigma and c as they were.
C4_ShortRegressorsRejected ==
    [][(sd_n' = sd_n + 1 /\ Len(sd_ret'.xs) < sd.k)
          => (sd_ret'.kind = "AssertionError" /\ sd' = sd)]_vars

\* a rejected update of an estimator that an earlier update has moved
C4_Witness ==
    /\ sd_ret.kind = "AssertionError" /\ sd_n >= 2
    /\ sd_ret.x # 0 /\ sd.mu # 0

\* C5: a constructor called with k <= 0 fails before any attribute is
\* assigned, and no detect call is ever served by that instance; a ready
\* detector has k > 0.
C5_NonPositiveOrderRejected ==
    /\ (cf_st # "none" /\ args.k <= 0)
          => (cf_st = "AssertionError" /\ cf = <<>> /\ ret = None /\ calls = <<>>)
    /\ cf_st = "ready"
          => (cf.k > 0 /\ cf.sdar_outlier.k > 0 /\ cf.sdar_change.k > 0)

C5_Witness == cf_st = "AssertionError" /\ args.k = 0

\* C6: when sigma is exactly 0 after the update, update returns the density
\* 0; in log-loss mode a density of 0 is scored 0; at both stages of detect
\* and for an estimator used on its own.
C6_PdfZeroRule ==
    /\ (sd_ret.kind = "pdf" /\ sd.sigma = 0) => sd_ret.p = 0
    /\ (cf_st = "ready" /\ calls # <<>>) =>
          /\ cf.sdar_outlier.sigma = 0 => LastCall.p1 = 0
          /\ cf.sdar_change.sigma = 0 => LastCall.p2 = 0
          /\ (cf.logloss /\ LastCall.p1 = 0) => LastCall.score1 = 0
          /\ (cf.logloss /\ LastCall.p2 = 0) => LastCall.score2 = 0

\* log-loss mode, a non-zero input, and both variances 0 after the updates
C6_Witness ==
    /\ cf_st = "ready" /\ calls # <<>> /\ cf.logloss
    /\ LastCall.x # 0 /\ cf.sdar_outlier.mu # 0
    /\ cf.sdar_outlier.sigma = 0 /\ cf.sdar_change.sigma = 0
    /\ LastCall.score1 = 0 /\ LastCall.score2 = 0

\* C7, as claimed: the distance lies in [0, 1], is the same with the two
\* models swapped, and is 1 if and only if sigma1 + sigma2 = 0.
C7_HellingerAsClaimed ==
    h_out.kind = "value" =>
        /\ 0 <= h_out.d /\ h_out.d <= Scale
        /\ h_out.d = h_out.swapped
        /\ (h_out.d = Scale) <=> (h_in.sigma1 + h_in.sigma2 = 0)

\* C7, amended: the distance is at most 1 and, up to the rounding of its
\* evaluation (here: by less than 1/4), at least 0; it is the same with the
\* two models swapped; it is 1 when sigma1 + sigma2 = 0, and also when only
\* one of the two variances is 0.
C7_HellingerBounds ==
    h_out.kind = "value" =>
        /\ h_out.d <= Scale
        /\ 4 * h_out.d > -Scale
        /\ h_out.d = h_out.swapped
        /\ (h_in.sigma1 + h_in.sigma2 = 0) => h_out.d = Scale
        /\ (h_in.sigma1 = 0 \/ h_in.sigma2 = 0) => h_out.d = Scale

\* the distance is 1 although the variances do not sum to 0
C7_Witness ==
    /\ h_out.kind = "value" /\ h_out.d = Scale
    /\ h_in.sigma1 = 0 /\ h_in.sigma2 > 0 /\ h_in.mu1 # h_in.mu2

\* C8: the regressors of the n-th stage-1 update are xs as it was before the
\* call, the inputs x_(n-k) .. x_(n-1) in arrival order, with 0 for the
\* inputs before the first; x_n is pushed after the update and evicts the
\* oldest element.
C8_Stage1Regressors ==
    cf_st = "ready" =>
        /\ \A n \in 1..Len(calls) :
              calls[n].regs1 = [j \in 1..cf.k |-> PastInput(n - cf.k + j - 1)]
        /\ cf.xs = [j \in 1..cf.k |-> PastInput(Len(calls) - cf.k + j)]

\* three distinct inputs through a window of two: a real input was evicted
C8_Witness ==
    /\ cf_st = "ready" /\ Len(calls) = 3 /\ cf.k = 2
    /\ calls[1].x # 0 /\ calls[2].x # 0
    /\ calls[1].x # calls[2].x /\ calls[3].x # calls[2].x /\ calls[3].x # calls[1].x

C10_SigmaNonNegative ==
    /\ sd_st = "ready" => (sd.sigma >= 0 /\ (sd_n = 0 => sd.sigma = 0))
    /\ cf_st = "ready" =>
          /\ cf.sdar_outlier.sigma >= 0 /\ cf.sdar_change.sigma >= 0
          /\ calls = <<>> => (cf.sdar_outlier.sigma = 0 /\ cf.sdar_change.sigma = 0)

\* both estimators of a detector hold a positive variance
C10_Witness ==
    /\ cf_st = "ready" /\ Len(calls) >= 2
    /\ cf.sdar_outlier.sigma > 0 /\ cf.sdar_change.sigma > 0

====
